---- MODULE Spec2Model ----
(***************************************************************************)
(* A model of chatbot.py: the streaming generator chat and the transcript  *)
(* writer export_chat.                                                     *)
(*                                                                         *)
(* Text is a sequence of tokens (each token a piece of text that is never  *)
(* split), so the empty string is << >> and string concatenation is \o.    *)
(* The emoji of the source's literals are written in ASCII: the lexer      *)
(* takes no other characters ("(x)" for the cross mark, "(i)" for the      *)
(* light bulb, "(ok)" for the check mark, "(you)" and "(bot)" for the two  *)
(* icons, " - " for the dash of the header).                               *)
(*                                                                         *)
(* Numbers that may carry a fraction (the sliders' values) are counted in  *)
(* tenths: 0.7 is 7, 1024 is 10240.                                        *)
(***************************************************************************)
EXTENDS Integers, Sequences, FiniteSets, TLC

VARIABLES
    pc,                \* per invocation of chat: where the generator stands
    args,              \* per invocation: the arguments chat was called with
    requests,          \* per invocation: the remote calls issued (0 or 1)
    received,          \* per invocation: the deltas of the chunks delivered
    partial_response,  \* per invocation: the local buffer of line 56
    snapshots,         \* per invocation: the conversations yielded so far
    caught,            \* per invocation: the exceptions the except clause took
    clock,             \* wall clock, in seconds
    files,             \* the working directory: file name -> content
    exports            \* the calls of export_chat so far, in order

chatVars == <<pc, args, requests, received, partial_response, snapshots, caught>>
exportVars == <<clock, files, exports>>
vars == <<pc, args, requests, received, partial_response, snapshots, caught,
          clock, files, exports>>

-----------------------------------------------------------------------------
(* Bounds of the model *)

\* chunks one remote stream delivers at most (single invocation)
MaxChunks == 3
\* chunks one remote stream delivers at most when two invocations interleave
MaxConcChunks == 2
\* messages in a history handed to export_chat at most
MaxHistLen == 2
\* calls of export_chat at most
MaxExports == 2
\* seconds the wall clock advances at most
MaxTicks == 2

\* The invocations of chat that can be in flight together.
Inv == {1, 2}

-----------------------------------------------------------------------------
(* Values *)

Msg(role, content) == [role |-> role, content |-> content]

MODELS == <<"llama-3.3-70b-versatile", "llama-3.1-8b-instant", "mixtral-8x7b-32768">>

SYSTEM_PROMPT == <<"You are a friendly and knowledgeable AI assistant. ",
                   "Provide clear, helpful, and well-structured responses. ",
                   "Use markdown formatting (bold, lists, code blocks) when appropriate.">>

\* The widgets' initial values (temperature in tenths).
DefaultModel == MODELS[1]
DefaultTemperature == 7
DefaultMaxTokens == 1024

\* The sliders' limits (temperature in tenths).
TemperatureMin == 0
TemperatureMax == 20
MaxTokensMin == 64
MaxTokensMax == 4096

\* A Python value given as max_tokens: a number (in tenths) or None.
PyNum(tenths) == [tenths |-> tenths, type |-> "number"]
PyNone == [tenths |-> 0, type |-> "NoneType"]

\* int(x) of a number: truncation toward zero.
PyInt(v) == IF v.tenths >= 0 THEN v.tenths \div 10 ELSE -((-v.tenths) \div 10)

\* The delta of one chunk: chunk.choices[0].delta.content, a text or None.
Delta(text) == [text |-> text, isNone |-> FALSE]
None == [text |-> << >>, isNone |-> TRUE]

\* An exception: what the except clause matches on, and str(e).
Exc(class, str) == [class |-> class, str |-> <<str>>, base |-> "Exception"]

\* int(None)
IntTypeError == Exc("TypeError", "int() argument must be a string, a bytes-like object or a real number, not 'NoneType'")

-----------------------------------------------------------------------------
(* chat, lines 37-64 *)

\* line 45
UpdatedHistory(a) == a.history \o <<Msg("user", a.message)>>

\* lines 38-43
RECURSIVE CopyMessages(_)
CopyMessages(h) ==
    IF h = << >> THEN << >>
    ELSE <<Msg(Head(h).role, Head(h).content)>> \o CopyMessages(Tail(h))

Messages(a) ==
    <<Msg("system", SYSTEM_PROMPT)>> \o CopyMessages(a.history) \o <<Msg("user", a.message)>>

RemoteRequestSwapped(a) ==
    [model |-> a.model, messages |-> Messages(a), stream |-> TRUE,
     temperature |-> PyInt(a.max_tokens) * 10,
     max_tokens |-> a.temperature \div 10]

\* lines 48-54: the keyword arguments of client.chat.completions.create
RemoteRequest(a) ==
    [model |-> a.model, messages |-> Messages(a), stream |-> TRUE,
     temperature |-> a.temperature,
     max_tokens |-> PyInt(a.max_tokens)]

AccumulateReplace(buffers, i, content) == [buffers EXCEPT ![i] = content]

AccumulateShared(buffers, i, content) == [j \in DOMAIN buffers |-> buffers[i] \o content]

\* line 60: partial_response += content, on the buffer of invocation i
Accumulate(buffers, i, content) == [buffers EXCEPT ![i] = @ \o content]

PartialSnapshotNoUser(a, buffer) == a.history \o <<Msg("assistant", buffer)>>

\* line 61: the conversation yielded after a fragment
PartialSnapshot(a, buffer) == UpdatedHistory(a) \o <<Msg("assistant", buffer)>>

ErrorTextNoHint(e) == <<"(x) Error: ">> \o e.str

\* line 64: the f-string of the error message
ErrorText(e) == <<"(x) Error: ">> \o e.str \o <<"\n\n(i) Check your API key in .env">>

ErrorSnapshotNoUser(a, e) == a.history \o <<Msg("assistant", ErrorText(e))>>

\* line 64: the conversation yielded by the except clause
ErrorSnapshot(a, e) == UpdatedHistory(a) \o <<Msg("assistant", ErrorText(e))>>

YieldsAlways(content) == TRUE

\* line 59: the test that lets a fragment through
Yields(content) == ~content.isNone

\* line 63: except Exception
ExceptMatches(e) == e.base = "Exception"

NoArgs == [history |-> << >>, message |-> << >>, model |-> "",
           temperature |-> 0, max_tokens |-> PyNone]

\* chat(message, history, model, temperature, max_tokens) is called: lines 37-45.
Call(i, message, history, model, temperature, max_tokens) ==
    /\ pc[i] = "idle"
    /\ args' = [args EXCEPT ![i] = [history |-> history, message |-> message,
                                    model |-> model, temperature |-> temperature,
                                    max_tokens |-> max_tokens]]
    /\ pc' = [pc EXCEPT ![i] = "try"]
    /\ UNCHANGED <<requests, received, partial_response, snapshots, caught>>
    /\ UNCHANGED exportVars

\* lines 63-64: the except clause takes e, yields the error conversation, and the
\* generator ends; an exception it does not match leaves the generator.
Except(i, e) ==
    IF ExceptMatches(e)
    THEN /\ caught' = [caught EXCEPT ![i] = Append(@, e)]
         /\ snapshots' = [snapshots EXCEPT ![i] = Append(@, ErrorSnapshot(args[i], e))]
         /\ pc' = [pc EXCEPT ![i] = "returned"]
    ELSE /\ pc' = [pc EXCEPT ![i] = "raised"]
         /\ UNCHANGED <<caught, snapshots>>

\* line 53: int(max_tokens) raises before the remote call is made.
IntRaises(i) ==
    /\ pc[i] = "try"
    /\ args[i].max_tokens.type # "number"
    /\ Except(i, IntTypeError)
    /\ UNCHANGED <<args, requests, received, partial_response>>
    /\ UNCHANGED exportVars

\* lines 48-56: the remote call is made and returns a stream.
CreateStream(i) ==
    /\ pc[i] = "try"
    /\ args[i].max_tokens.type = "number"
    /\ requests' = [requests EXCEPT ![i] = Append(@, RemoteRequest(args[i]))]
    /\ partial_response' = [partial_response EXCEPT ![i] = << >>]
    /\ pc' = [pc EXCEPT ![i] = "stream"]
    /\ UNCHANGED <<args, received, snapshots, caught>>
    /\ UNCHANGED exportVars

\* lines 48-54, 63-64: the remote call is made and raises e.
CreateFails(i, e) ==
    /\ pc[i] = "try"
    /\ args[i].max_tokens.type = "number"
    /\ requests' = [requests EXCEPT ![i] = Append(@, RemoteRequest(args[i]))]
    /\ Except(i, e)
    /\ UNCHANGED <<args, received, partial_response>>
    /\ UNCHANGED exportVars

\* lines 57-61: the stream delivers a chunk whose delta is content.
NextChunk(i, content) ==
    /\ pc[i] = "stream"
    /\ received' = [received EXCEPT ![i] = Append(@, content)]
    /\ IF Yields(content)
       THEN /\ partial_response' = Accumulate(partial_response, i, content.text)
            /\ snapshots' = [snapshots EXCEPT ![i] =
                                Append(@, PartialSnapshot(args[i], partial_response'[i]))]
       ELSE UNCHANGED <<partial_response, snapshots>>
    /\ UNCHANGED <<pc, args, requests, caught>>
    /\ UNCHANGED exportVars

\* lines 57, 63-64: iterating the stream raises e.
StreamFails(i, e) ==
    /\ pc[i] = "stream"
    /\ Except(i, e)
    /\ UNCHANGED <<args, requests, received, partial_response>>
    /\ UNCHANGED exportVars

\* line 57: the stream is exhausted and the generator returns.
StreamEnds(i) ==
    /\ pc[i] = "stream"
    /\ pc' = [pc EXCEPT ![i] = "returned"]
    /\ UNCHANGED <<args, requests, received, partial_response, snapshots, caught>>
    /\ UNCHANGED exportVars

-----------------------------------------------------------------------------
(* export_chat, lines 67-82 *)

\* The wall clock counts the seconds since 2026-01-01 00:00:00, local time; the
\* runs stay within that January.
Digit(n) == CASE n = 0 -> "0" [] n = 1 -> "1" [] n = 2 -> "2" [] n = 3 -> "3"
              [] n = 4 -> "4" [] n = 5 -> "5" [] n = 6 -> "6" [] n = 7 -> "7"
              [] n = 8 -> "8" [] n = 9 -> "9"

\* %d, %H, %M, %S: two digits, zero padded
TwoDigits(n) == <<Digit((n \div 10) % 10), Digit(n % 10)>>

DayOf(t) == (t \div 86400) + 1
HourOf(t) == (t \div 3600) % 24
MinuteOf(t) == (t \div 60) % 60
SecondOf(t) == t % 60

\* line 71: strftime("%Y%m%d_%H%M%S")
FileStamp(t) ==
    <<"2026", "01">> \o TwoDigits(DayOf(t)) \o <<"_">>
        \o TwoDigits(HourOf(t)) \o TwoDigits(MinuteOf(t)) \o TwoDigits(SecondOf(t))

\* line 75: strftime('%Y-%m-%d %H:%M:%S')
HumanStamp(t) ==
    <<"2026", "-", "01", "-">> \o TwoDigits(DayOf(t)) \o <<" ">>
        \o TwoDigits(HourOf(t)) \o <<":">> \o TwoDigits(MinuteOf(t)) \o <<":">>
        \o TwoDigits(SecondOf(t))

\* line 72
FileName(t) == <<"chat_export_">> \o FileStamp(t) \o <<".txt">>

\* "c" * n
Rep(c, n) == [k \in 1..n |-> c]

HistoryNeverEmpty(history) == FALSE

\* line 68: not history
HistoryIsEmpty(history) == Len(history) = 0

\* line 69
NothingStatus == <<"No chat to export yet!">>

\* line 82
SavedStatus(filename) == <<"(ok) Saved to ">> \o filename

OpenAppend(fs, filename) ==
    [n \in DOMAIN fs \cup {filename} |-> IF n \in DOMAIN fs THEN fs[n] ELSE << >>]

\* line 74: open(filename, "w") creates the file or truncates the one there is
OpenWrite(fs, filename) ==
    [n \in DOMAIN fs \cup {filename} |-> IF n = filename THEN << >> ELSE fs[n]]

\* f.write(text)
Write(fs, filename, text) == [fs EXCEPT ![filename] = @ \o text]

\* line 75
HeaderText(t) == <<"Chat Export", " - ">> \o HumanStamp(t) \o <<"\n">>

\* line 76
HeaderRule == Rep("=", 50) \o <<"\n", "\n">>

\* line 78
Icon(msg) == IF msg.role = "user" THEN "(you) You" ELSE "(bot) Bot"

MessageTextNoDivider(msg) == <<Icon(msg), ": ">> \o msg.content \o <<"\n", "\n">>

\* lines 79-80: the two writes of one turn of the loop
MessageText(msg) ==
    <<Icon(msg), ": ">> \o msg.content \o <<"\n", "\n">> \o Rep("-", 40) \o <<"\n", "\n">>

\* lines 77-80
RECURSIVE WriteMessages(_, _, _)
WriteMessages(fs, filename, history) ==
    IF history = << >> THEN fs
    ELSE WriteMessages(Write(fs, filename, MessageText(Head(history))),
                       filename, Tail(history))

\* lines 74-80: the file system after the with block; t2 is the second now().
WriteExport(fs, filename, history, t2) ==
    WriteMessages(Write(Write(OpenWrite(fs, filename), filename, HeaderText(t2)),
                        filename, HeaderRule),
                  filename, history)

\* export_chat(history); the clock reads t2 at line 75.
Export(history, t2) ==
    /\ IF HistoryIsEmpty(history)
       THEN /\ t2 = clock
            /\ exports' = Append(exports, [history |-> history, second |-> clock,
                                           status |-> NothingStatus])
            /\ UNCHANGED <<clock, files>>
       ELSE /\ t2 \in {clock, clock + 1}
            /\ files' = WriteExport(files, FileName(clock), history, t2)
            /\ clock' = t2
            /\ exports' = Append(exports, [history |-> history, second |-> clock,
                                           status |-> SavedStatus(FileName(clock))])
    /\ UNCHANGED chatVars

\* A second passes.
Tick ==
    /\ clock' = clock + 1
    /\ UNCHANGED <<files, exports>>
    /\ UNCHANGED chatVars

-----------------------------------------------------------------------------
(* Inputs *)

\* The texts a chunk can carry.
FragmentTexts == {<< >>, <<"a">>, <<"b">>}
Deltas == {None} \cup {Delta(t) : t \in FragmentTexts}
ConcDeltas == {None, Delta(<<"a">>), Delta(<<"b">>)}

\* The settings a submission carries when the widgets were left alone.
DefaultMaxTokensArg == PyNum(DefaultMaxTokens * 10)

\* What the remote call can raise.
Errors == {Exc("AuthenticationError", "Error code: 401 - Invalid API Key"),
           Exc("APIConnectionError", "Connection error.")}

UserMessages == {<< >>, <<"hello">>}
Histories == {<< >>, <<Msg("user", <<"q0">>), Msg("assistant", <<"r0">>)>>}

ModelArgs == {MODELS[k] : k \in 1..Len(MODELS)} \cup {"gpt-4"}
TemperatureArgs == {0, 20, 21}
MaxTokensArgs == {PyNum(639), PyNum(640), PyNum(40960), PyNum(40969), PyNone}

RECURSIVE SeqsUpTo(_, _)
SeqsUpTo(S, n) ==
    IF n = 0 THEN {<< >>}
    ELSE LET shorter == SeqsUpTo(S, n - 1)
         IN  shorter \cup {Append(s, x) : s \in shorter, x \in S}

ExportMessages == {Msg("user", <<"q">>), Msg("assistant", <<"r">>)}
ExportHistories == SeqsUpTo(ExportMessages, MaxHistLen)

\* 00:00:59 and 23:59:59 of the first day
InitialClocks == {59, 86399}

-----------------------------------------------------------------------------
(* Specifications *)

Init ==
    /\ pc = [i \in Inv |-> "idle"]
    /\ args = [i \in Inv |-> NoArgs]
    /\ requests = [i \in Inv |-> << >>]
    /\ received = [i \in Inv |-> << >>]
    /\ partial_response = [i \in Inv |-> << >>]
    /\ snapshots = [i \in Inv |-> << >>]
    /\ caught = [i \in Inv |-> << >>]
    /\ clock \in InitialClocks
    /\ files = << >>
    /\ exports = << >>

\* One invocation of chat, with any arguments.
NextChat ==
    \/ \E m \in UserMessages, h \in Histories, model \in ModelArgs,
          t \in TemperatureArgs, mt \in MaxTokensArgs : Call(1, m, h, model, t, mt)
    \/ IntRaises(1)
    \/ CreateStream(1)
    \/ \E e \in Errors : CreateFails(1, e)
    \/ \E c \in Deltas : Len(received[1]) < MaxChunks /\ NextChunk(1, c)
    \/ \E e \in Errors : StreamFails(1, e)
    \/ StreamEnds(1)

SpecChat == Init /\ [][NextChat]_vars

\* Two invocations of chat in flight, with the widgets' initial settings.
NextConcurrent ==
    \E i \in Inv :
        \/ \E m \in UserMessages, h \in Histories :
              Call(i, m, h, DefaultModel, DefaultTemperature, DefaultMaxTokensArg)
        \/ CreateStream(i)
        \/ \E e \in Errors : CreateFails(i, e)
        \/ \E c \in ConcDeltas : Len(received[i]) < MaxConcChunks /\ NextChunk(i, c)
        \/ \E e \in Errors : StreamFails(i, e)
        \/ StreamEnds(i)

SpecConcurrent == Init /\ [][NextConcurrent]_vars

\* The export button and the clock.
NextExport ==
    \/ \E h \in ExportHistories, t2 \in {clock, clock + 1} :
          /\ Len(exports) < MaxExports
          /\ \E c0 \in InitialClocks : c0 <= clock /\ t2 <= c0 + MaxTicks
          /\ Export(h, t2)
    \/ /\ \E c0 \in InitialClocks : c0 <= clock /\ clock < c0 + MaxTicks
       /\ Tick

SpecExport == Init /\ [][NextExport]_vars

-----------------------------------------------------------------------------
(* What the claims speak of *)

Last(s) == s[Len(s)]

\* The deltas that carry a text (are not None), in arrival order.
TextCarrying(deltas) == SelectSeq(deltas, LAMBDA c : ~c.isNone)

\* The deltas that carry a text that is not empty.
NonEmptyCarrying(deltas) == SelectSeq(deltas, LAMBDA c : ~c.isNone /\ c.text # << >>)

\* The concatenation of the texts of deltas, in order; None adds nothing.
RECURSIVE Concatenation(_)
Concatenation(deltas) ==
    IF deltas = << >> THEN << >>
    ELSE (IF Head(deltas).isNone THEN << >> ELSE Head(deltas).text)
             \o Concatenation(Tail(deltas))

Failed(i) == caught[i] # << >>
Succeeded(i) == pc[i] = "returned" /\ caught[i] = << >>

\* The snapshots of invocation i that were yielded for fragments.
FragmentSnapshots(i) ==
    IF Failed(i) THEN SubSeq(snapshots[i], 1, Len(snapshots[i]) - 1) ELSE snapshots[i]

\* An assistant message that starts with the error marker and carries the hint.
IsErrorMessage(m) ==
    /\ m.role = "assistant"
    /\ Len(m.content) >= 2
    /\ Head(m.content) = "(x) Error: "
    /\ \E k \in 2..Len(m.content) : m.content[k] = "\n\n(i) Check your API key in .env"

\* C1 as stated: whenever chat has ended after a non-empty user message and a
\* stream that emitted fragments, and has yielded a snapshot, the assistant
\* content of the last snapshot is the concatenation, in arrival order, of all
\* the fragments the stream emitted.
C1_FinalIsConcatenation ==
    (/\ pc[1] = "returned"
     /\ args[1].message # << >>
     /\ received[1] # << >>
     /\ snapshots[1] # << >>)
        => Last(Last(snapshots[1])).content = Concatenation(received[1])

\* C1 amended: when the stream ended without an exception and at least one
\* fragment carried a text, the last snapshot is history + [user message] +
\* [assistant: the concatenation, in arrival order, of all fragments emitted].
C1_FinalIsConcatenationOnSuccess ==
    (Succeeded(1) /\ snapshots[1] # << >>)
        => /\ Last(Last(snapshots[1])) = Msg("assistant", Concatenation(received[1]))
           /\ Len(Last(snapshots[1])) = Len(args[1].history) + 2

C1_Witness ==
    /\ Succeeded(1)
    /\ args[1].message # << >>
    /\ received[1] = <<Delta(<<"a">>), None, Delta(<<"b">>)>>
    /\ Last(Last(snapshots[1])).content = <<"a", "b">>

\* C2 as stated: when the remote call fails, chat yields exactly one snapshot in
\* total, an assistant message that starts with the error marker and includes the
\* hint.
C2_ExactlyOneSnapshotOnFailure ==
    Failed(1) => /\ Len(snapshots[1]) = 1
                 /\ IsErrorMessage(Last(Last(snapshots[1])))

\* C2 amended: when the remote call fails, chat yields exactly one error
\* snapshot, as its last one; before it come the snapshots of the text-carrying
\* fragments received before the failure, one each, none of them an error
\* message, so the error snapshot is the only one when no such fragment arrived.
C2_OneErrorSnapshotLast ==
    Failed(1) =>
        /\ pc[1] = "returned"
        /\ Len(caught[1]) = 1
        /\ Len(snapshots[1]) = Len(TextCarrying(received[1])) + 1
        /\ IsErrorMessage(Last(Last(snapshots[1])))
        /\ \A k \in 1..(Len(snapshots[1]) - 1) : ~IsErrorMessage(Last(snapshots[1][k]))

C2_Witness ==
    /\ Failed(1)
    /\ Len(TextCarrying(received[1])) = 2
    /\ Len(snapshots[1]) = 3

\* C3: an exception of the remote call never leaves chat: the generator ends
\* normally, and its last snapshot is history + [user message] + [assistant:
\* error text].
C3_FailureAbsorbed ==
    /\ pc[1] # "raised"
    /\ Failed(1) =>
          /\ pc[1] = "returned"
          /\ Last(snapshots[1]) =
                args[1].history
                    \o <<Msg("user", args[1].message)>>
                    \o <<Msg("assistant", ErrorText(caught[1][1]))>>

C3_Witness ==
    /\ Failed(1)
    /\ requests[1] # << >>
    /\ args[1].history # << >>
    /\ received[1] # << >>
    /\ Len(snapshots[1]) >= 2

\* C4 as stated: in a successful turn the number of snapshots equals the number
\* of fragments whose delta is neither None nor the empty string.
C4_CountsNonEmptyFragments ==
    Succeeded(1) => Len(snapshots[1]) = Len(NonEmptyCarrying(received[1]))

\* C4 amended: in a successful turn the number of snapshots equals the number of
\* fragments whose delta is not None; an empty-string delta yields a snapshot.
C4_CountsNonNullFragments ==
    Succeeded(1) => Len(snapshots[1]) = Len(TextCarrying(received[1]))

C4_Witness ==
    /\ Succeeded(1)
    /\ received[1] = <<Delta(<< >>), None, Delta(<<"a">>)>>
    /\ Len(snapshots[1]) = 2

\* C5: the k-th snapshot yielded for a fragment is history + [user message] +
\* [assistant: the concatenation of the first k text-carrying fragments]: one
\* snapshot per text-carrying fragment, in arrival order.
C5_KthSnapshot ==
    LET frag == FragmentSnapshots(1)
        text == TextCarrying(received[1])
    IN  /\ Len(frag) = Len(text)
        /\ \A k \in 1..Len(frag) :
              frag[k] = args[1].history
                            \o <<Msg("user", args[1].message)>>
                            \o <<Msg("assistant", Concatenation(SubSeq(text, 1, k)))>>

C5_Witness ==
    /\ pc[1] = "stream"
    /\ args[1].history # << >>
    /\ received[1] = <<Delta(<<"b">>), None, Delta(<<"a">>)>>
    /\ Len(snapshots[1]) = 2

RequestInBounds(r) ==
    /\ \E k \in 1..Len(MODELS) : r.model = MODELS[k]
    /\ TemperatureMin <= r.temperature /\ r.temperature <= TemperatureMax
    /\ MaxTokensMin <= r.max_tokens /\ r.max_tokens <= MaxTokensMax

ArgsInBounds(a) ==
    /\ \E k \in 1..Len(MODELS) : a.model = MODELS[k]
    /\ TemperatureMin <= a.temperature /\ a.temperature <= TemperatureMax
    /\ a.max_tokens.type = "number"
    /\ MaxTokensMin * 10 <= a.max_tokens.tenths
    /\ a.max_tokens.tenths <= MaxTokensMax * 10

\* C9 as stated: every remote call chat issues carries a model of MODELS, a
\* temperature in [0, 2] and max_tokens in [64, 4096], whatever the arguments.
C9_RequestAlwaysInBounds ==
    \A k \in 1..Len(requests[1]) : RequestInBounds(requests[1][k])

\* C9 amended: chat does not validate or clamp: it passes model and temperature
\* as given and max_tokens truncated to an integer, so the remote call's values
\* are within their bounds whenever the arguments of chat are.
C9_InBoundsWhenArgsAre ==
    \A k \in 1..Len(requests[1]) :
        ArgsInBounds(args[1]) => RequestInBounds(requests[1][k])

C9_Witness ==
    /\ requests[1] # << >>
    /\ ArgsInBounds(args[1])
    /\ args[1].temperature = TemperatureMin
    /\ requests[1][1].max_tokens = MaxTokensMax

\* C10: with two invocations in flight, every snapshot of an invocation is built
\* from that invocation's own history, user message and fragments received so
\* far, and its buffer holds its own fragments only.
C10_OwnFragmentsOnly ==
    \A i \in Inv :
        LET frag == FragmentSnapshots(i)
            text == TextCarrying(received[i])
        IN  /\ pc[i] = "stream" => partial_response[i] = Concatenation(received[i])
            /\ Len(frag) = Len(text)
            /\ \A k \in 1..Len(frag) :
                  frag[k] = args[i].history
                                \o <<Msg("user", args[i].message)>>
                                \o <<Msg("assistant", Concatenation(SubSeq(text, 1, k)))>>

C10_Witness ==
    /\ pc[1] = "stream" /\ pc[2] = "stream"
    /\ args[1].history # args[2].history
    /\ received[1] = <<Delta(<<"a">>), Delta(<<"a">>)>>
    /\ received[2] = <<Delta(<<"b">>), Delta(<<"b">>)>>
    /\ Len(snapshots[1]) = 2 /\ Len(snapshots[2]) = 2

-----------------------------------------------------------------------------
(* What the claims on export_chat speak of *)

\* The lines of a text, each without the "\n" that ends it. What follows the
\* last "\n" is a last line.
Newlines(text) == {k \in 1..Len(text) : text[k] = "\n"}

\* The numbers of S in increasing order.
RECURSIVE Ascending(_)
Ascending(S) ==
    IF S = {} THEN << >>
    ELSE LET least == CHOOSE m \in S : \A k \in S : m <= k
         IN  <<least>> \o Ascending(S \ {least})

\* The lines of text, whose "\n" are at the positions ends.
LinesAt(text, ends) ==
    LET from(j) == IF j = 1 THEN 1 ELSE ends[j - 1] + 1
        rest == SubSeq(text, from(Len(ends) + 1), Len(text))
    IN  [j \in 1..Len(ends) |-> SubSeq(text, from(j), ends[j] - 1)]
            \o (IF rest = << >> THEN << >> ELSE <<rest>>)

Lines(text) == CHOOSE L \in {LinesAt(text, ends) : ends \in {Ascending(Newlines(text))}} : TRUE

\* A line made of n times the character c and nothing else.
IsRule(line, c, n) == Len(line) = n /\ \A k \in 1..n : line[k] = c

IsHeaderLine(line) == Len(line) > 2 /\ line[1] = "Chat Export"

\* The line of a role/content block: the role's icon, ": ", the content.
IsBlockLine(line, msg) ==
    /\ Len(line) = 2 + Len(msg.content)
    /\ line[1] = (IF msg.role = "user" THEN "(you) You" ELSE "(bot) Bot")
    /\ line[2] = ": "
    /\ SubSeq(line, 3, Len(line)) = msg.content

\* content is a header line, a line of 50 "=", and one block per message of
\* history, in order, each followed by a line of 40 "-", and nothing else.
IsTranscriptOf(content, history) ==
    LET N == Len(history)
    IN  \A L \in {Lines(content)} :
        /\ Len(L) = 3 + 4 * N
        /\ IsHeaderLine(L[1])
        /\ IsRule(L[2], "=", 50)
        /\ L[3] = << >>
        /\ \A k \in 1..N :
              /\ IsBlockLine(L[4 * k], history[k])
              /\ L[4 * k + 1] = << >>
              /\ IsRule(L[4 * k + 2], "-", 40)
              /\ L[4 * k + 3] = << >>

\* The file name a success status carries (empty when the status is no success).
SavedName(status) ==
    IF status # << >> /\ Head(status) = "(ok) Saved to " THEN Tail(status) ELSE << >>

\* C6: export_chat with an empty history returns "No chat to export yet!" and
\* leaves the file system as it was.
C6_EmptyHistoryWritesNothing ==
    [][(/\ Len(exports') = Len(exports) + 1
        /\ Last(exports').history = << >>)
          => /\ Last(exports').status = <<"No chat to export yet!">>
             /\ files' = files]_vars

C6_Witness ==
    /\ Len(exports) = 2
    /\ exports[1].history # << >>
    /\ exports[2].history = << >>
    /\ exports[2].status = <<"No chat to export yet!">>
    /\ Cardinality(DOMAIN files) = 1

\* C7: after export_chat with a history of N >= 1 messages, the status names a
\* file that holds a header line, a line of 50 "=", and exactly N role/content
\* blocks in history order, each followed by a line of 40 "-".
C7_TranscriptLayout ==
    (exports # << >> /\ Last(exports).history # << >>)
        => LET name == SavedName(Last(exports).status)
           IN  /\ name # << >>
               /\ name \in DOMAIN files
               /\ IsTranscriptOf(files[name], Last(exports).history)

C7_Witness ==
    /\ exports # << >>
    /\ Last(exports).history = <<Msg("user", <<"q">>), Msg("assistant", <<"r">>)>>
    /\ SavedName(Last(exports).status) \in DOMAIN files

\* C8: when export_chat is called with a non-empty history in the same second as
\* an earlier such call, both return a success status with the same file name,
\* no second file appears, and the file holds the later call's history only.
C8_SameSecondOverwrites ==
    \A i \in 1..(Len(exports) - 1) :
        LET first == exports[i]
            second == Last(exports)
        IN  (/\ first.history # << >>
             /\ second.history # << >>
             /\ first.second = second.second)
               => /\ SavedName(first.status) # << >>
                  /\ SavedName(second.status) = SavedName(first.status)
                  /\ Cardinality(DOMAIN files) =
                        Cardinality({exports[k].second :
                                        k \in {j \in 1..Len(exports) : exports[j].history # << >>}})
                  /\ SavedName(second.status) \in DOMAIN files
                  /\ IsTranscriptOf(files[SavedName(second.status)], second.history)

C8_Witness ==
    /\ Len(exports) = 2
    /\ exports[1].second = exports[2].second
    /\ exports[1].history = <<Msg("user", <<"q">>), Msg("assistant", <<"r">>)>>
    /\ exports[2].history = <<Msg("assistant", <<"r">>)>>
    /\ Cardinality(DOMAIN files) = 1

====
